---- MODULE Spec2Model ----
(***************************************************************************)
(* A model of stactools.ukcp18.stac: the filename parser Parts, the grid   *)
(* aligner align/merge and the record builders create_item and             *)
(* create_collection.  Strings are sequences of one-character strings.     *)
(***************************************************************************)
EXTENDS Integers, Sequences, FiniteSets, TLC

VARIABLES
    src,        \* parser: the tokens a path is built from
    filename,   \* parser: the path handed to Parts.from_filename
    result,     \* parser: what Parts.from_filename returned or raised
    pc,         \* position of the running call
    pair,       \* identifier: the two Parts values compared
    ids,        \* identifier: their item_id, <<>> until read
    datasets,   \* merge: the opened datasets
    base,       \* merge: the reference dataset
    to_merge,   \* merge: what align returned
    merged,     \* merge: what xr.merge returned
    call,       \* builders: the builder called
    urls,       \* builders: create_item's urls, each with the file behind it
    parts,      \* builders: create_item's local variable parts
    at,         \* builders: the url the asset loop has reached
    record,     \* builders: the record under construction (item, r)
    validated,  \* builders: the record validate() has passed, if any
    returned    \* builders: the record handed to the caller

(***************************************************************************)
(* Characters.                                                             *)
(***************************************************************************)
Digits == <<"0", "1", "2", "3", "4", "5", "6", "7", "8", "9">>

DigitSet == {Digits[i] : i \in 1..10}

Letters == {"a", "b", "c", "d", "g", "k", "l", "m", "n", "o", "p", "r", "s",
            "t", "x", "y", "W", "T", "Z", "u", "f"}

\* \w of the pattern, on the model's alphabet
WordChars == Letters \cup DigitSet \cup {"_"}

AllIn(s, S) == \A i \in 1..Len(s) : s[i] \in S

HasUnderscore(s) == \E i \in 1..Len(s) : s[i] = "_"

DigitVal(c) == CHOOSE v \in 0..9 : Digits[v + 1] = c

RECURSIVE int(_)
\* int(str) on a string of decimal digits
int(s) ==
    IF s = <<>> THEN 0
    ELSE int(SubSeq(s, 1, Len(s) - 1)) * 10 + DigitVal(s[Len(s)])

RECURSIVE str(_)
\* str(int) of a non-negative integer: no leading zeros
str(n) ==
    IF n < 10 THEN <<Digits[n + 1]>>
    ELSE str(n \div 10) \o <<Digits[(n % 10) + 1]>>

RECURSIVE Pad(_, _)
\* "%0<w>d" % n
Pad(n, w) ==
    IF w <= 1 THEN str(n)
    ELSE IF Len(str(n)) >= w THEN str(n)
    ELSE <<"0">> \o Pad(n, w - 1)

(***************************************************************************)
(* pathlib.Path(filename).name: trailing separators are dropped, then the  *)
(* last component is kept.                                                 *)
(***************************************************************************)
RECURSIVE StripSlashes(_)
StripSlashes(s) ==
    IF s # <<>> /\ s[Len(s)] = "/" THEN StripSlashes(SubSeq(s, 1, Len(s) - 1))
    ELSE s

Name(p) ==
    LET s == StripSlashes(p)
        cuts == {i \in 1..Len(s) : s[i] = "/"}
        last == IF cuts = {} THEN 0 ELSE CHOOSE i \in cuts : \A j \in cuts : j <= i
    IN SubSeq(s, last + 1, Len(s))

(***************************************************************************)
(* _xpr, and _xpr.match: a match anchored at the start of the string and   *)
(* free at its end, each quantifier greedy.                                *)
(***************************************************************************)
Literal == <<"_", "l", "a", "n", "d", "-", "g", "c", "m", "_", "g", "l", "o",
             "b", "a", "l", "_", "6", "0", "k", "m", "_">>

LitLen == Len(Literal)

Max(S) == CHOOSE x \in S : \A y \in S : y <= x

Min(S) == CHOOSE x \in S : \A y \in S : x <= y

\* the tail "_(\d{8})-(\d{8}).nc" found right after position l
TailAt(s, l) ==
    /\ Len(s) >= l + 21
    /\ s[l + 1] = "_"
    /\ AllIn(SubSeq(s, l + 2, l + 9), DigitSet)
    /\ s[l + 10] = "-"
    /\ AllIn(SubSeq(s, l + 11, l + 18), DigitSet)
    /\ s[l + 19] # "\n"
    /\ s[l + 20] = "n"
    /\ s[l + 21] = "c"

\* ends l of the group temporal_resolution, [^_]+, that starts after k + 1
ResEnds(s, k) ==
    {l \in (k + 2)..Len(s) :
        /\ l + 1 <= Len(s) /\ s[l + 1] = "_"
        /\ \A x \in (k + 2)..l : s[x] # "_"
        /\ TailAt(s, l)}

\* ends k of the group member_id, \d+, that starts after j + LitLen
MemberEnds(s, j) ==
    {k \in (j + LitLen + 1)..Len(s) :
        /\ k + 1 <= Len(s) /\ s[k + 1] = "_"
        /\ \A x \in (j + LitLen + 1)..k : s[x] \in DigitSet
        /\ ResEnds(s, k) # {}}

\* ends j of the group scenario, \w+, that starts after i + 1
ScenarioEnds(s, i) ==
    {j \in (i + 2)..Len(s) :
        /\ j + LitLen <= Len(s)
        /\ \A x \in 1..LitLen : s[j + x] = Literal[x]
        /\ \A x \in (i + 2)..j : s[x] \in WordChars
        /\ MemberEnds(s, j) # {}}

\* ends i of the group variable, \w+, that starts the string
VariableEnds(s) ==
    {i \in 1..Len(s) :
        /\ i + 1 <= Len(s) /\ s[i + 1] = "_"
        /\ \A x \in 1..i : s[x] \in WordChars
        /\ ScenarioEnds(s, i) # {}}

NoMatch == [matched |-> FALSE]

Groups(s, i, j, k, l) ==
    [matched |-> TRUE,
     variable |-> SubSeq(s, 1, i),
     scenario |-> SubSeq(s, i + 2, j),
     member_id |-> SubSeq(s, j + LitLen + 1, k),
     temporal_resolution |-> SubSeq(s, k + 2, l),
     start_datetime |-> SubSeq(s, l + 2, l + 9),
     end_datetime |-> SubSeq(s, l + 11, l + 18)]

\* the same pattern with a lazy first group, (?P<variable>\w+?)
MatchLazy(s) ==
    IF VariableEnds(s) = {} THEN NoMatch
    ELSE LET i == Min(VariableEnds(s))
             j == Max(ScenarioEnds(s, i))
             k == Max(MemberEnds(s, j))
             l == Max(ResEnds(s, k))
         IN Groups(s, i, j, k, l)

Match(s) ==
    IF VariableEnds(s) = {} THEN NoMatch
    ELSE LET i == Max(VariableEnds(s))
             j == Max(ScenarioEnds(s, i))
             k == Max(MemberEnds(s, j))
             l == Max(ResEnds(s, k))
         IN Groups(s, i, j, k, l)

(***************************************************************************)
(* datetime.datetime.strptime(s, "%Y%m%d") on eight digits: four of year,  *)
(* two of month, two of day, then the calendar check of datetime.          *)
(***************************************************************************)
IsLeap(y) == (y % 4 = 0 /\ y % 100 # 0) \/ y % 400 = 0

DaysIn(y, m) ==
    IF m = 2 THEN (IF IsLeap(y) THEN 29 ELSE 28)
    ELSE IF m \in {4, 6, 9, 11} THEN 30 ELSE 31

IsDate(y, m, d) ==
    /\ y >= 1
    /\ m >= 1 /\ m <= 12
    /\ d >= 1 /\ d <= DaysIn(y, m)

NoDate == [y |-> 0, m |-> 0, d |-> 0]

strptime(s) ==
    LET y == int(SubSeq(s, 1, 4))
        m == int(SubSeq(s, 5, 6))
        d == int(SubSeq(s, 7, 8))
    IN IF IsDate(y, m, d) THEN [y |-> y, m |-> m, d |-> d] ELSE NoDate

\* datetime.isoformat() of a midnight datetime
isoformat(t) ==
    Pad(t.y, 4) \o <<"-">> \o Pad(t.m, 2) \o <<"-">> \o Pad(t.d, 2)
        \o <<"T", "0", "0", ":", "0", "0", ":", "0", "0">>

\* t1 <= t2 on datetimes
DateLE(t1, t2) ==
    \/ t1.y < t2.y
    \/ t1.y = t2.y /\ t1.m < t2.m
    \/ t1.y = t2.y /\ t1.m = t2.m /\ t1.d <= t2.d

(***************************************************************************)
(* Parts.from_filename.                                                    *)
(***************************************************************************)
Raised == [ok |-> FALSE]

from_filename(path) ==
    LET name == Name(path)
        m == Match(name)
    IN IF ~m.matched THEN Raised
       ELSE LET start == strptime(m.start_datetime)
                end == strptime(m.end_datetime)
            IN IF start = NoDate \/ end = NoDate THEN Raised
               ELSE [ok |-> TRUE,
                     scenario |-> m.scenario,
                     member_id |-> int(m.member_id),
                     variable |-> m.variable,
                     temporal_resolution |-> m.temporal_resolution,
                     start_datetime |-> start,
                     end_datetime |-> end,
                     filename |-> name]

\* item_id with the scenario left out of the joined list
item_idNoScenario(p) ==
    <<"u", "k", "c", "p", "1", "8">>
        \o <<"-">> \o p.temporal_resolution
        \o <<"-">> \o str(p.member_id)
        \o <<"-">> \o isoformat(p.start_datetime) \o <<"Z">>
        \o <<"-">> \o isoformat(p.end_datetime) \o <<"Z">>

\* Parts.item_id
item_id(p) ==
    <<"u", "k", "c", "p", "1", "8">>
        \o <<"-">> \o p.temporal_resolution
        \o <<"-">> \o p.scenario
        \o <<"-">> \o str(p.member_id)
        \o <<"-">> \o isoformat(p.start_datetime) \o <<"Z">>
        \o <<"-">> \o isoformat(p.end_datetime) \o <<"Z">>

(***************************************************************************)
(* Datasets.  A dataset has the index coordinates latitude and longitude,  *)
(* an optional scalar coordinate height (NoHeight when absent) and data    *)
(* variables; a data variable is an array of rows along one dimension.     *)
(***************************************************************************)
NoHeight == 0

WindVars == {"sfcWind", "uas", "vas"}

Tail1(s) == SubSeq(s, 2, Len(s))

\* the cell bounds that go with a coordinate
Bounds(g) == [i \in 1..Len(g) |-> <<g[i] - 1, g[i] + 1>>]

\* x.data_vars
data_vars(x) == DOMAIN x.vars

\* x.drop_vars("height", errors="ignore")
drop_height(x) == [x EXCEPT !.height = NoHeight]

\* x.isel(latitude=slice(1, None))
isel_latitude(x) ==
    [x EXCEPT
        !.latitude = Tail1(x.latitude),
        !.vars = [n \in DOMAIN x.vars |->
                    IF x.vars[n].dim = "latitude"
                    THEN [x.vars[n] EXCEPT !.rows = Tail1(x.vars[n].rows)]
                    ELSE x.vars[n]]]

\* the four assignments x[...] = base[...] of align: an index of another
\* length cannot replace the index of x; base["latitude"] brings base's
\* scalar coordinates to x
CanOverwrite(x, b) ==
    /\ Len(x.latitude) = Len(b.latitude)
    /\ Len(x.longitude) = Len(b.longitude)
    /\ {"latitude_bnds", "longitude_bnds"} \subseteq DOMAIN b.vars

Overwrite(x, b) ==
    [x EXCEPT
        !.latitude = b.latitude,
        !.longitude = b.longitude,
        !.height = b.height,
        !.vars = [n \in DOMAIN x.vars \cup {"latitude_bnds", "longitude_bnds"} |->
                    IF n \in {"latitude_bnds", "longitude_bnds"}
                    THEN b.vars[n] ELSE x.vars[n]]]

IsWind(x) == data_vars(x) \cap WindVars # {}

\* align with the wind datasets left out of the list
alignExcludesWind(ds, b) ==
    [ok |-> TRUE,
     list |-> LET keep == {i \in 1..Len(ds) : ~IsWind(ds[i])}
                  RECURSIVE Pick(_)
                  Pick(i) == IF i > Len(ds) THEN <<>>
                             ELSE IF i \in keep THEN <<drop_height(ds[i])>> \o Pick(i + 1)
                             ELSE Pick(i + 1)
              IN Pick(1)]

\* align with every dataset taken for a wind dataset
alignTrimsAll(ds, b) ==
    LET copies == [i \in 1..Len(ds) |-> isel_latitude(drop_height(ds[i]))]
    IN IF \E i \in 1..Len(ds) : ~CanOverwrite(copies[i], b)
       THEN [ok |-> FALSE]
       ELSE [ok |-> TRUE, list |-> [i \in 1..Len(ds) |-> Overwrite(copies[i], b)]]

align(ds, b) ==
    LET copies == [i \in 1..Len(ds) |-> drop_height(ds[i])]
        wind == {i \in 1..Len(ds) : IsWind(copies[i])}
    IN IF \E i \in wind : ~CanOverwrite(isel_latitude(copies[i]), b)
       THEN [ok |-> FALSE]
       ELSE [ok |-> TRUE,
             list |-> [i \in 1..Len(ds) |->
                        IF i \in wind THEN Overwrite(isel_latitude(copies[i]), b)
                        ELSE copies[i]]]

(***************************************************************************)
(* xr.merge(objects, join="exact"), with its default compat                *)
(* "no_conflicts": indexes that differ raise, and so do two variables of   *)
(* one name that differ.                                                   *)
(***************************************************************************)
SameIndexes(l) ==
    \A i, j \in 1..Len(l) :
        l[i].latitude = l[j].latitude /\ l[i].longitude = l[j].longitude

NoConflicts(l) ==
    /\ \A i, j \in 1..Len(l) :
        \A n \in DOMAIN l[i].vars \cap DOMAIN l[j].vars : l[i].vars[n] = l[j].vars[n]
    /\ \A i, j \in 1..Len(l) :
        (l[i].height # NoHeight /\ l[j].height # NoHeight) => l[i].height = l[j].height

Union(l) ==
    LET names == UNION {DOMAIN l[i].vars : i \in 1..Len(l)}
        heights == {l[i].height : i \in 1..Len(l)} \ {NoHeight}
    IN [ok |-> TRUE,
        latitude |-> IF l = <<>> THEN <<>> ELSE l[1].latitude,
        longitude |-> IF l = <<>> THEN <<>> ELSE l[1].longitude,
        height |-> IF heights = {} THEN NoHeight ELSE CHOOSE h \in heights : TRUE,
        vars |-> [n \in names |->
                    l[CHOOSE i \in 1..Len(l) : n \in DOMAIN l[i].vars].vars[n]]]

RECURSIVE Sorted(_)
Sorted(S) == IF S = {} THEN <<>> ELSE <<Min(S)>> \o Sorted(S \ {Min(S)})

NaN == <<-1, -1>>

\* xr.merge(objects) with the default join="outer": indexes that differ are
\* united and the rows a dataset lacks are filled
mergeOuter(l) ==
    IF SameIndexes(l) THEN (IF NoConflicts(l) THEN Union(l) ELSE [ok |-> FALSE])
    ELSE LET lat == Sorted(UNION {{l[i].latitude[k] : k \in 1..Len(l[i].latitude)} : i \in 1..Len(l)})
             lon == Sorted(UNION {{l[i].longitude[k] : k \in 1..Len(l[i].longitude)} : i \in 1..Len(l)})
             names == UNION {DOMAIN l[i].vars : i \in 1..Len(l)}
             from(n) == l[CHOOSE i \in 1..Len(l) : n \in DOMAIN l[i].vars]
             own(n) == IF from(n).vars[n].dim = "latitude" THEN from(n).latitude
                       ELSE from(n).longitude
             all(n) == IF from(n).vars[n].dim = "latitude" THEN lat ELSE lon
         IN [ok |-> TRUE, latitude |-> lat, longitude |-> lon, height |-> NoHeight,
             vars |-> [n \in names |->
                [dim |-> from(n).vars[n].dim,
                 rows |-> [k \in 1..Len(all(n)) |->
                    IF \E q \in 1..Len(own(n)) : own(n)[q] = all(n)[k]
                    THEN from(n).vars[n].rows[CHOOSE q \in 1..Len(own(n)) : own(n)[q] = all(n)[k]]
                    ELSE NaN]]]]

xr_merge(l) ==
    IF ~SameIndexes(l) THEN [ok |-> FALSE]
    ELSE IF ~NoConflicts(l) THEN [ok |-> FALSE]
    ELSE Union(l)

\* merge(datasets, base)
merge(ds, b) ==
    LET a == align(ds, b)
    IN IF a.ok THEN xr_merge(a.list) ELSE [ok |-> FALSE]

(***************************************************************************)
(* The paths the parser is run on: a path is built from tokens, with at    *)
(* most one defect that takes it out of the naming grammar.                *)
(***************************************************************************)
MaxMember == 2

MaxWidth == 2

Dirs == {<<>>, <<"d", "a", "t", "a", "/">>}

VariableTokens == {<<"t", "a", "s", "m", "a", "x">>, <<"x", "_", "y">>}

ScenarioTokens == {<<"r", "c", "p", "2", "6">>, <<"r", "c", "p", "8", "5">>}

ResolutionTokens == {<<"d", "a", "y">>, <<"m", "o", "n">>, <<"d", "-", "y">>}

CalendarDates ==
    {[y |-> 1899, m |-> 12, d |-> 1],
     [y |-> 1909, m |-> 11, d |-> 30],
     [y |-> 2000, m |-> 2, d |-> 29]}

\* eight digits that name no day of the calendar
NonDates ==
    {[y |-> 1900, m |-> 2, d |-> 29],
     [y |-> 1899, m |-> 13, d |-> 1]}

Defects == {"none", "tail", "dot", "literal", "member", "short"}

Sources ==
    [dir : Dirs,
     variable : VariableTokens,
     scenario : ScenarioTokens,
     member : 0..MaxMember,
     width : 1..MaxWidth,
     resolution : ResolutionTokens,
     start : CalendarDates \cup NonDates,
     end : CalendarDates \cup NonDates,
     defect : Defects]

Stamp(t) == Pad(t.y, 4) \o Pad(t.m, 2) \o Pad(t.d, 2)

\* the basename the tokens spell
Basename(s) ==
    s.variable \o <<"_">> \o s.scenario
        \o (IF s.defect = "literal" THEN <<"_", "l", "a", "n", "d", "_">> ELSE Literal)
        \o (IF s.defect = "member" THEN <<"r">> ELSE <<>>) \o Pad(s.member, s.width)
        \o <<"_">> \o s.resolution \o <<"_">>
        \o (IF s.defect = "short" THEN SubSeq(Stamp(s.start), 2, 8) ELSE Stamp(s.start))
        \o <<"-">> \o Stamp(s.end)
        \o (IF s.defect = "dot" THEN <<"x">> ELSE <<".">>) \o <<"n", "c">>
        \o (IF s.defect = "tail" THEN <<".", "b", "a", "k">> ELSE <<>>)

Path(s) == s.dir \o Basename(s)

\* the tokens spell a name of the grammar, with days of the calendar
InGrammar(s) ==
    /\ s.defect = "none"
    /\ s.start \in CalendarDates
    /\ s.end \in CalendarDates

NoSource == [defect |-> "idle"]

(***************************************************************************)
(* The parser run on one path.                                             *)
(***************************************************************************)
parseVars == <<src, filename, result>>

idVars == <<pair, ids>>

mergeVars == <<datasets, base, to_merge, merged>>

buildVars == <<call, urls, parts, at, record, validated, returned>>

vars ==
    <<src, filename, result, pc, pair, ids, datasets, base, to_merge, merged,
      call, urls, parts, at, record, validated, returned>>

ParseIdle == src = NoSource /\ filename = <<>> /\ result = Raised

IdIdle == pair = <<>> /\ ids = <<>>

BuildIdle ==
    /\ call = "none"
    /\ urls = <<>>
    /\ parts = Raised
    /\ at = 0
    /\ record = [kind |-> "none"]
    /\ validated = [kind |-> "none"]
    /\ returned = [kind |-> "none"]

MergeIdle ==
    /\ datasets = <<>>
    /\ base = [ok |-> FALSE]
    /\ to_merge = [ok |-> FALSE]
    /\ merged = [ok |-> FALSE]

InitParse ==
    /\ src \in Sources
    /\ filename = Path(src)
    /\ result = Raised
    /\ pc = "call"
    /\ IdIdle
    /\ MergeIdle
    /\ BuildIdle

FromFilename ==
    /\ pc = "call"
    /\ result' = from_filename(filename)
    /\ pc' = IF result'.ok THEN "returned" ELSE "raised"
    /\ UNCHANGED <<src, filename, idVars, mergeVars, buildVars>>

NextParse == FromFilename

SpecParse == InitParse /\ [][NextParse]_vars

(***************************************************************************)
(* item_id read on two Parts values the parser returned.                   *)
(***************************************************************************)
Identities ==
    {from_filename(Path(s)) : s \in {x \in Sources : InGrammar(x) /\ x.dir = <<>> /\ x.width = MaxWidth}}

InitId ==
    /\ pair \in Identities \X Identities
    /\ ids = <<<<>>, <<>>>>
    /\ pc = "idle"
    /\ ParseIdle
    /\ MergeIdle
    /\ BuildIdle

ItemId(i) ==
    /\ ids[i] = <<>>
    /\ ids' = [ids EXCEPT ![i] = item_id(pair[i])]
    /\ UNCHANGED <<pair, pc, parseVars, mergeVars, buildVars>>

NextId == \E i \in 1..2 : ItemId(i)

SpecId == InitId /\ [][NextId]_vars

(***************************************************************************)
(* The datasets merge is run on.                                           *)
(***************************************************************************)
MaxDatasets == 2

LatGrids == {<<10, 20>>, <<5, 15, 25>>, <<10, 30>>}

LonGrids == {<<0, 1>>, <<5, 6>>, <<0, 1, 2>>}

\* a variable of the archive: its name, the content of the file, the height
\* it is published at
Contents ==
    {[name |-> "tas", version |-> 1, height |-> 1],
     [name |-> "tas", version |-> 2, height |-> 1],
     [name |-> "pr", version |-> 1, height |-> NoHeight],
     [name |-> "uas", version |-> 1, height |-> 2],
     [name |-> "sfcWind", version |-> 1, height |-> 2]}

Dataset(c, lat, lon) ==
    [latitude |-> lat,
     longitude |-> lon,
     height |-> c.height,
     vars |-> [n \in {c.name, "latitude_bnds", "longitude_bnds"} |->
                IF n = "latitude_bnds" THEN [dim |-> "latitude", rows |-> Bounds(lat)]
                ELSE IF n = "longitude_bnds" THEN [dim |-> "longitude", rows |-> Bounds(lon)]
                ELSE [dim |-> "latitude",
                      rows |-> [i \in 1..Len(lat) |-> <<c.version, lat[i]>>]]]]

Inputs == {Dataset(c, lat, lon) : c \in Contents, lat \in LatGrids, lon \in LonGrids}

(***************************************************************************)
(* merge(datasets, base).                                                  *)
(***************************************************************************)
InitMerge ==
    /\ \E n \in 1..MaxDatasets : datasets \in [1..n -> Inputs]
    /\ base \in {datasets[i] : i \in 1..Len(datasets)}
    /\ to_merge = [ok |-> FALSE]
    /\ merged = [ok |-> FALSE]
    /\ pc = "merge"
    /\ ParseIdle
    /\ IdIdle
    /\ BuildIdle

Align ==
    /\ pc = "merge"
    /\ to_merge' = align(datasets, base)
    /\ pc' = IF to_merge'.ok THEN "aligned" ELSE "raised"
    /\ UNCHANGED <<datasets, base, merged, parseVars, idVars, buildVars>>

Join ==
    /\ pc = "aligned"
    /\ merged' = xr_merge(to_merge.list)
    /\ pc' = IF merged'.ok THEN "returned" ELSE "raised"
    /\ UNCHANGED <<datasets, base, to_merge, parseVars, idVars, buildVars>>

NextMerge == Align \/ Join

SpecMerge == InitMerge /\ [][NextMerge]_vars

(***************************************************************************)
(* The record builders.  A file is a path and what opening it gives: a     *)
(* dataset, or NoFile when it cannot be opened.  The urls of one call are  *)
(* distinct paths.                                                         *)
(***************************************************************************)
MaxUrls == 2

NoFile == [ok |-> FALSE]

NoRecord == [kind |-> "none"]

NoAssets == [k \in {} |-> <<>>]

BaseLat == <<10, 20>>

BaseLon == <<0, 1>>

TasFile == [ok |-> TRUE, ds |-> Dataset([name |-> "tas", version |-> 1, height |-> 1], BaseLat, BaseLon)]

PrFile == [ok |-> TRUE, ds |-> Dataset([name |-> "pr", version |-> 1, height |-> NoHeight], BaseLat, BaseLon)]

ShiftedFile == [ok |-> TRUE, ds |-> Dataset([name |-> "pr", version |-> 1, height |-> NoHeight], BaseLat, <<5, 6>>)]

\* the tokens of the names of one file group and of another
GroupSources ==
    {s \in Sources :
        /\ s.defect = "none" /\ s.width = MaxWidth
        /\ s.scenario = <<"r", "c", "p", "2", "6">>
        /\ s.start = [y |-> 1899, m |-> 12, d |-> 1]
        /\ s.end = [y |-> 1909, m |-> 11, d |-> 30]
        /\ \/ s.member = 1 /\ s.resolution = <<"d", "a", "y">>
           \/ s.member = 2 /\ s.resolution = <<"m", "o", "n">>}

OneSource == CHOOSE s \in GroupSources : s.member = 1 /\ s.dir = <<>>

Files ==
    {[path |-> Path(s), file |-> IF HasUnderscore(s.variable) THEN PrFile ELSE TasFile] :
        s \in GroupSources}
    \cup {[path |-> Path([OneSource EXCEPT !.defect = "member"]), file |-> TasFile],
          [path |-> Path(OneSource), file |-> NoFile],
          [path |-> Path(OneSource), file |-> ShiftedFile]}

\* the merged datasets create_collection is called with
CollectionInputs ==
    {m \in {merge(<<x.ds, y.ds>>, x.ds) : x, y \in {TasFile, PrFile, ShiftedFile}} : m.ok}

InitBuild ==
    /\ \/ /\ call = "create_item"
          /\ \E n \in 0..MaxUrls : urls \in [1..n -> Files]
          /\ \A j, k \in 1..Len(urls) : j # k => urls[j].path # urls[k].path
          /\ merged = [ok |-> FALSE]
          /\ pc = "open"
       \/ /\ call = "create_collection"
          /\ urls = <<>>
          /\ merged \in CollectionInputs
          /\ pc = "collection"
    /\ datasets = <<>>
    /\ base = [ok |-> FALSE]
    /\ to_merge = [ok |-> FALSE]
    /\ parts = Raised
    /\ at = 0
    /\ record = NoRecord
    /\ validated = NoRecord
    /\ returned = NoRecord
    /\ ParseIdle
    /\ IdIdle

idle == <<parseVars, idVars, call, urls, returned>>

\* create_item, the list of xr.open_dataset(fsspec.open(f).open())
Open ==
    /\ pc = "open"
    /\ IF \E k \in 1..Len(urls) : ~urls[k].file.ok
       THEN /\ pc' = "raised"
            /\ UNCHANGED datasets
       ELSE /\ datasets' = [k \in 1..Len(urls) |-> urls[k].file.ds]
            /\ pc' = "merge"
    /\ UNCHANGED <<idle, base, to_merge, merged, parts, at, record, validated>>

\* create_item, ds = merge(datasets, base=datasets[0]); datasets[0] of an
\* empty list raises
MergeOpened ==
    /\ pc = "merge"
    /\ IF datasets = <<>>
       THEN /\ pc' = "raised"
            /\ UNCHANGED <<base, merged>>
       ELSE /\ base' = datasets[1]
            /\ merged' = merge(datasets, datasets[1])
            /\ pc' = IF merged'.ok THEN "parse" ELSE "raised"
    /\ UNCHANGED <<idle, datasets, to_merge, parts, at, record, validated>>

\* create_item, parts = Parts.from_filename(urls[0]); the loop before it
\* rewrites the attributes of ds and nothing of the record
ParseFirst ==
    /\ pc = "parse"
    /\ parts' = from_filename(urls[1].path)
    /\ pc' = IF parts'.ok THEN "template" ELSE "raised"
    /\ UNCHANGED <<idle, mergeVars, at, record, validated>>

\* create_item, the template, xstac.xarray_to_stac and item.id; the
\* translation is another library's and may raise
Translate ==
    /\ pc = "template"
    /\ \/ /\ record' = [kind |-> "item",
                        id |-> item_id(parts),
                        start_datetime |-> isoformat(parts.start_datetime) \o <<"Z">>,
                        end_datetime |-> isoformat(parts.end_datetime) \o <<"Z">>,
                        variables |-> data_vars(merged),
                        assets |-> NoAssets,
                        member_id |-> 0,
                        temporal_resolution |-> <<>>]
          /\ at' = 1
          /\ pc' = "assets"
       \/ /\ pc' = "raised"
          /\ UNCHANGED <<record, at>>
    /\ UNCHANGED <<idle, mergeVars, parts, validated>>

\* item.add_asset(key, asset): self.assets[key] = asset
add_asset(item, key, href) ==
    [item EXCEPT !.assets =
        [k \in DOMAIN item.assets \cup {key} |->
            IF k = key THEN href ELSE item.assets[k]]]

\* create_item, one turn of the loop over urls, which rebinds parts
AddAsset ==
    /\ pc = "assets"
    /\ at <= Len(urls)
    /\ parts' = from_filename(urls[at].path)
    /\ IF parts'.ok
       THEN /\ record' = add_asset(record, parts'.variable, urls[at].path)
            /\ at' = at + 1
            /\ pc' = "assets"
       ELSE /\ pc' = "raised"
            /\ UNCHANGED <<record, at>>
    /\ UNCHANGED <<idle, mergeVars, validated>>

\* create_item, the two ukcp18: properties, set once the loop has ended
SetProperties ==
    /\ pc = "assets"
    /\ at > Len(urls)
    /\ record' = [record EXCEPT
                    !.member_id = parts.member_id,
                    !.temporal_resolution = parts.temporal_resolution]
    /\ pc' = "validate"
    /\ UNCHANGED <<idle, mergeVars, parts, at, validated>>

\* create_collection, the template and xstac.xarray_to_stac
CollectionTranslate ==
    /\ pc = "collection"
    /\ \/ /\ record' = [kind |-> "collection",
                        id |-> <<"u", "k", "c", "p", "-", "1", "8">>,
                        variables |-> data_vars(merged),
                        time_end |-> "data",
                        item_assets |-> {},
                        citation |-> FALSE,
                        summaries |-> {}]
          /\ pc' = "extend"
       \/ /\ pc' = "raised"
          /\ UNCHANGED record
    /\ UNCHANGED <<idle, mergeVars, parts, at, validated>>

\* create_collection, the end of the time extent and the item assets
CollectionExtend ==
    /\ pc = "extend"
    /\ record' = [record EXCEPT !.time_end = "2100-12-31",
                                !.item_assets = record.variables]
    /\ pc' = "summaries"
    /\ UNCHANGED <<idle, mergeVars, parts, at, validated>>

\* create_collection, the citation and the summaries
CollectionSummaries ==
    /\ pc = "summaries"
    /\ record' = [record EXCEPT
                    !.citation = TRUE,
                    !.summaries = {"ukcp18:variable", "ukcp18:temporal_resolution"}]
    /\ pc' = "validate"
    /\ UNCHANGED <<idle, mergeVars, parts, at, validated>>

\* validate() that reports a failure and lets the builder go on
ValidateWarns ==
    /\ pc = "validate"
    /\ \E valid \in BOOLEAN :
        /\ validated' = IF valid THEN record ELSE validated
        /\ pc' = "return"
    /\ UNCHANGED <<idle, mergeVars, parts, at, record>>

\* item.validate(), r.validate(): the schema decides, and a failure raises
Validate ==
    /\ pc = "validate"
    /\ \E valid \in BOOLEAN :
        /\ validated' = IF valid THEN record ELSE validated
        /\ pc' = IF valid THEN "return" ELSE "raised"
    /\ UNCHANGED <<idle, mergeVars, parts, at, record>>

\* return item, return r
Return ==
    /\ pc = "return"
    /\ returned' = record
    /\ pc' = "returned"
    /\ UNCHANGED <<parseVars, idVars, call, urls, mergeVars, parts, at, record, validated>>

NextBuild ==
    \/ Open
    \/ MergeOpened
    \/ ParseFirst
    \/ Translate
    \/ AddAsset
    \/ SetProperties
    \/ CollectionTranslate
    \/ CollectionExtend
    \/ CollectionSummaries
    \/ Validate
    \/ Return

SpecBuild == InitBuild /\ [][NextBuild]_vars

(***************************************************************************)
(* Properties of merge.                                                    *)
(***************************************************************************)
ExtraRowWind(x) == IsWind(x) /\ Len(x.latitude) = Len(base.latitude) + 1

\* C4: when a dataset holding sfcWind, uas or vas has one latitude row more
\* than base, the dataset merge returns has base's latitude, longitude and
\* bounds, and holds every data variable of every input.
C4_WindReconciled ==
    (pc = "returned" /\ \E i \in 1..Len(datasets) : ExtraRowWind(datasets[i])) =>
        /\ merged.latitude = base.latitude
        /\ merged.longitude = base.longitude
        /\ merged.vars["latitude_bnds"] = base.vars["latitude_bnds"]
        /\ merged.vars["longitude_bnds"] = base.vars["longitude_bnds"]
        /\ \A i \in 1..Len(datasets) : data_vars(datasets[i]) \subseteq DOMAIN merged.vars

C4_Witness ==
    /\ pc = "returned"
    /\ Len(datasets) = 2
    /\ \E i, j \in 1..2 :
        /\ ExtraRowWind(datasets[i])
        /\ datasets[i].longitude # base.longitude
        /\ ~IsWind(datasets[j])
        /\ "uas" \in DOMAIN merged.vars
        /\ "tas" \in DOMAIN merged.vars

\* merge(datasets, base) with no adjustment at all: xr.merge on the inputs
PlainJoin == xr_merge(datasets)

\* the inputs with the height coordinate dropped and nothing else changed
HeightDropped == [i \in 1..Len(datasets) |-> drop_height(datasets[i])]

NoWind == \A i \in 1..Len(datasets) : ~IsWind(datasets[i])

Done == pc \in {"returned", "raised"}

\* what merge returned or raised
Outcome == IF pc = "returned" THEN merged ELSE [ok |-> FALSE]

\* C6 as claimed: with no wind dataset, merge returns or raises as the
\* exact-match join of the inputs themselves does.
C6_PlainJoinOfInputs ==
    (Done /\ NoWind) => Outcome = PlainJoin

\* C6: with no wind dataset, merge returns or raises as the exact-match join
\* of the inputs without their height coordinate does, and no input's
\* latitude or longitude is trimmed or overwritten.
C6_PlainJoinAfterHeightDrop ==
    (Done /\ NoWind) =>
        /\ to_merge.ok
        /\ to_merge.list = HeightDropped
        /\ Outcome = xr_merge(HeightDropped)

C6_Witness ==
    /\ pc = "returned"
    /\ NoWind
    /\ Len(datasets) = 2
    /\ datasets[1].height # NoHeight
    /\ datasets[1] # datasets[2]
    /\ Outcome # PlainJoin

\* C7: when the adjusted datasets still differ in a dimension size or in
\* coordinate values, merge raises; a dataset it returns holds the rows and
\* the coordinates of every adjusted dataset unchanged.
C7_MismatchRaises ==
    /\ (Done /\ to_merge.ok /\ ~SameIndexes(to_merge.list)) => pc = "raised"
    /\ pc = "returned" =>
        \A i \in 1..Len(to_merge.list) :
            /\ merged.latitude = to_merge.list[i].latitude
            /\ merged.longitude = to_merge.list[i].longitude
            /\ \A n \in DOMAIN to_merge.list[i].vars :
                merged.vars[n] = to_merge.list[i].vars[n]

C7_Witness ==
    /\ pc = "raised"
    /\ to_merge.ok
    /\ Len(datasets) = 2
    /\ datasets[1].height # NoHeight
    /\ to_merge.list[1].latitude = to_merge.list[2].latitude
    /\ Len(to_merge.list[1].longitude) = Len(to_merge.list[2].longitude)
    /\ to_merge.list[1].longitude # to_merge.list[2].longitude

(***************************************************************************)
(* Properties of the parser.                                               *)
(***************************************************************************)
\* C1: on a path whose basename is in the grammar, from_filename returns
\* the scenario, the member id as an integer, the resolution and the two
\* dates the name was spelt from, and returns the same Parts as on the
\* basename alone.
C1_ParsesEmbeddedValues ==
    (pc # "call" /\ InGrammar(src)) =>
        /\ pc = "returned"
        /\ result.ok
        /\ result.scenario = src.scenario
        /\ result.member_id = src.member
        /\ result.temporal_resolution = src.resolution
        /\ result.start_datetime = src.start
        /\ result.end_datetime = src.end
        /\ result = from_filename(Basename(src))

C1_Witness ==
    /\ pc = "returned"
    /\ InGrammar(src)
    /\ src.dir # <<>>
    /\ HasUnderscore(src.variable)
    /\ src.member = 1 /\ src.width = 2
    /\ result.member_id = 1
    /\ result.start_datetime = [y |-> 2000, m |-> 2, d |-> 29]

\* C2: on a path whose basename is not in the grammar in full,
\* from_filename raises and returns no Parts.
C2_NonMatchingRaises ==
    (pc # "call" /\ src.defect # "none") => (pc = "raised" /\ ~result.ok)

\* C9: every Parts that from_filename returns has start <= end and a
\* member id of at least 1.
C9_FieldsInvariant ==
    pc = "returned" =>
        /\ DateLE(result.start_datetime, result.end_datetime)
        /\ result.member_id >= 1

(***************************************************************************)
(* Properties of the identifier.                                           *)
(***************************************************************************)
Key(p) ==
    <<p.temporal_resolution, p.scenario, p.member_id,
      p.start_datetime, p.end_datetime>>

\* C3: two Parts have the same item_id exactly when they have the same
\* resolution, scenario, member, start and end.
C3_IdInjective ==
    (ids[1] # <<>> /\ ids[2] # <<>>) =>
        ((ids[1] = ids[2]) <=> (Key(pair[1]) = Key(pair[2])))

C3_Witness ==
    /\ ids[1] # <<>> /\ ids[2] # <<>>
    /\ ids[1] # ids[2]
    /\ pair[1].scenario # pair[2].scenario
    /\ pair[1].temporal_resolution = pair[2].temporal_resolution
    /\ pair[1].member_id = pair[2].member_id
    /\ pair[1].start_datetime = pair[2].start_datetime
    /\ pair[1].end_datetime = pair[2].end_datetime
    /\ pair[1].variable # pair[2].variable

(***************************************************************************)
(* Properties of the builders.                                             *)
(***************************************************************************)
ItemReturned == call = "create_item" /\ pc = "returned"

\* C5: an item create_item returns has, for every input path, an asset
\* whose href is that path, so at least as many assets as input files.
C5_AssetPerInput ==
    ItemReturned =>
        /\ \A k \in 1..Len(urls) :
            \E key \in DOMAIN returned.assets : returned.assets[key] = urls[k].path
        /\ Cardinality(DOMAIN returned.assets) >= Len(urls)

\* C8: a builder hands a record to its caller only when the call returns,
\* and the record is then the one validate() has passed; a call that raised
\* hands over nothing.
C8_NoPartialRecords ==
    /\ pc = "returned" => (returned.kind # "none" /\ returned = validated)
    /\ pc # "returned" => returned.kind = "none"

C8_Witness ==
    /\ ItemReturned
    /\ Len(urls) = 2
    /\ Cardinality(DOMAIN returned.assets) = 2
    /\ returned.member_id = 2

\* C10: the member id and the temporal resolution of a returned item are
\* those of the Parts of the first path, from which its id and its start and
\* end were taken.
C10_IdentityOfFirstPath ==
    ItemReturned =>
        LET first == from_filename(urls[1].path)
        IN /\ returned.id = item_id(first)
           /\ returned.start_datetime = isoformat(first.start_datetime) \o <<"Z">>
           /\ returned.end_datetime = isoformat(first.end_datetime) \o <<"Z">>
           /\ returned.member_id = first.member_id
           /\ returned.temporal_resolution = first.temporal_resolution

====
